---- MODULE Spec2Model ----
(***************************************************************************)
(* Model of scripts/analyze_code_files.py: the directory walk of           *)
(* find_code_files, the line counter, the package attribution and the      *)
(* report that main() builds from the scan result.                         *)
(*                                                                         *)
(* A path is a sequence of segments, a segment is a string.  A file of the *)
(* tree is a record [path, lines, readable]: its path below the scan root, *)
(* the number of lines it holds, and whether open()/read succeeds on it.   *)
(***************************************************************************)
EXTENDS Integers, Sequences, FiniteSets, TLC

\* ---------------------------------------------------------------- bounds

\* most files in a tree
MaxFiles == 2
\* most lines in a file
MaxLines == 2
\* largest value given to -n/--top and -b/--bottom
MaxN == 2
\* most segments of a path handed to get_package in SpecPkg
MaxSegs == 2

\* ------------------------------------------------------ program constants

CODE_EXTENSIONS ==
    {".ts", ".tsx", ".js", ".jsx", ".mjs", ".cjs", ".swift", ".kt", ".java", ".py", ".sh"}

SKIP_DIRS ==
    {"node_modules", ".git", "dist", "build", "coverage", "__pycache__", ".turbo",
     "out", ".worktrees", "vendor", "Pods", "DerivedData", ".gradle", ".idea"}

SKIP_SHORT_PATTERNS == {"index.js", "index.ts", "postinstall.js"}

SKIP_SHORT_SUFFIXES == <<"-cli.ts">>

PACKAGES == {"src", "apps", "extensions", "packages", "scripts", "ui", "test", "docs"}

\* argparse defaults of main()
DefaultThreshold == 1000
DefaultMinThreshold == 10
DefaultTop == 20
DefaultBottom == 10

\* ------------------------------------------------------- strings and paths

UpperAlphabet == "ABCDEFGHIJKLMNOPQRSTUVWXYZ"
LowerAlphabet == "abcdefghijklmnopqrstuvwxyz"

CharAt(s, i) == SubSeq(s, i, i)

\* the lower-case letter of each upper-case letter
LowerOf ==
    [c \in {CharAt(UpperAlphabet, i) : i \in 1..Len(UpperAlphabet)} |->
        CharAt(LowerAlphabet, CHOOSE i \in 1..Len(UpperAlphabet) : CharAt(UpperAlphabet, i) = c)]

\* str.lower() on one character
LowerChar(c) == IF c \in DOMAIN LowerOf THEN LowerOf[c] ELSE c

RECURSIVE StrLower(_)
\* str.lower()
StrLower(s) ==
    IF Len(s) = 0 THEN s ELSE LowerChar(CharAt(s, 1)) \o StrLower(Tail(s))

\* str.rfind('.') counted from 1; 0 when the name holds no dot
RFindDot(name) ==
    LET dots == {i \in 1..Len(name) : CharAt(name, i) = "."}
    IN  IF dots = {} THEN 0 ELSE CHOOSE i \in dots : \A j \in dots : j <= i

\* pathlib's PurePath.suffix: the name from its last dot on, unless that dot
\* is the first or the last character of the name
PathSuffix(name) ==
    LET i == RFindDot(name)
    IN  IF 1 < i /\ i < Len(name) THEN SubSeq(name, i, Len(name)) ELSE ""

\* str.endswith
EndsWith(name, suffix) ==
    /\ Len(name) >= Len(suffix)
    /\ SubSeq(name, Len(name) - Len(suffix) + 1, Len(name)) = suffix

IsPrefix(p, q) == Len(p) <= Len(q) /\ SubSeq(q, 1, Len(p)) = p

\* PurePath.name
PathName(p) == p[Len(p)]

\* PurePath.relative_to: the segments of file_path after root_dir; ok is
\* FALSE where the code raises ValueError (file_path is not under root_dir)
RelativeTo(file_path, root_dir) ==
    IF IsPrefix(root_dir, file_path)
    THEN [ok |-> TRUE, parts |-> SubSeq(file_path, Len(root_dir) + 1, Len(file_path))]
    ELSE [ok |-> FALSE, parts |-> <<>>]

\* get_package without the test "parts[0] in PACKAGES"
GetPackageDropsMembership(file_path, root_dir) ==
    LET relative == RelativeTo(file_path, root_dir)
    IN  IF ~relative.ok THEN "root"
        ELSE IF Len(relative.parts) > 0 THEN relative.parts[1]
        ELSE "root"

\* lines 39-48
get_package(file_path, root_dir) ==
    LET relative == RelativeTo(file_path, root_dir)
    IN  IF ~relative.ok THEN "root"
        ELSE IF Len(relative.parts) > 0 /\ relative.parts[1] \in PACKAGES
             THEN relative.parts[1]
        ELSE "root"

\* ------------------------------------------------------------------ state

VARIABLES
    tree,            \* the files below the scan root: [path, lines, readable]
    root_dir,        \* Path(args.directory).resolve()
    args,            \* argparse result: [threshold, min_threshold, top, bottom]
    pc,              \* position of main()
    pending,         \* directories os.walk has still to yield, next first
    files,           \* files_with_counts: <<file_path, line_count>> in encounter order
    top_files,       \* files_desc[:args.top]
    long_warnings,   \* <<relative_path, line_count>> of the flagged long files
    bottom_files,    \* files_asc[:args.bottom]
    short_warnings,  \* <<relative_path, line_count>> of the flagged short files
    total_files, total_lines, average,
    package_stats,   \* pkg -> [files, lines]
    package_avg,     \* pkg -> avg, as printed in the per-package table
    long_msg,        \* branch taken by "if long_warnings": "warn" or "none"
    short_msg,       \* branch taken by "if short_warnings": "warn" or "none"
    call,            \* SpecPkg: the arguments of a get_package call
    result           \* SpecPkg: what the call returned

vars == <<tree, root_dir, args, pc, pending, files, top_files, long_warnings,
          bottom_files, short_warnings, total_files, total_lines, average,
          package_stats, package_avg, long_msg, short_msg, call, result>>

\* ------------------------------------------------------------- file system

\* The paths a tree draws its files from, in the order a directory listing
\* returns them.  Reporting family: names and first segments that decide
\* the warning lists and the packages.
ReportPaths ==
    << <<"index.ts">>, <<"weird.ts">>, <<"src", "my-cli.ts">>, <<"lib", "a.py">>,
       <<"node_modules", "c.js">> >>

\* Scanning family: skipped directories at several depths, extensions in
\* both cases, names without a suffix.
ScanPaths ==
    << <<"b.py">>, <<"B.PY">>, <<"README">>, <<".py">>, <<"src", "notes.md">>,
       <<"dist", "d.js">>, <<"vendor", "lib", "e.ts">>, <<"src", "build", "f.sh">>,
       <<"src", "out.kt">> >>

AllPaths == ReportPaths \o ScanPaths

\* position of a path in the listing order
OrderOf(path) == CHOOSE i \in 1..Len(AllPaths) : AllPaths[i] = path

AbsPath(t, root) == root \o t.path

RECURSIVE SeqOfSet(_)
\* the entries of a set of files in listing order
SeqOfSet(S) ==
    IF S = {} THEN <<>>
    ELSE LET first == CHOOSE e \in S : \A o \in S : OrderOf(e.path) <= OrderOf(o.path)
         IN  <<first>> \o SeqOfSet(S \ {first})

RECURSIVE Dedup(_)
\* a sequence without the later repetitions of its elements
Dedup(s) ==
    IF s = <<>> THEN <<>>
    ELSE LET front == Dedup(SubSeq(s, 1, Len(s) - 1))
             last == s[Len(s)]
         IN  IF \E i \in 1..Len(front) : front[i] = last THEN front ELSE Append(front, last)

\* os.walk's filenames for dirpath: the files directly in it
Filenames(fs, root, dirpath) ==
    LET here == {t \in fs : AbsPath(t, root) = Append(dirpath, PathName(t.path))}
        s == SeqOfSet(here)
    IN  [i \in 1..Len(s) |-> PathName(s[i].path)]

\* os.walk's dirnames for dirpath: the directories directly in it
Dirnames(fs, root, dirpath) ==
    LET below == {t \in fs : /\ IsPrefix(dirpath, AbsPath(t, root))
                             /\ Len(AbsPath(t, root)) > Len(dirpath) + 1}
        s == SeqOfSet(below)
    IN  Dedup([i \in 1..Len(s) |-> AbsPath(s[i], root)[Len(dirpath) + 1]])

\* count_lines with "return -1" in its except branch
CountLinesMinusOne(fs, root, file_path) ==
    IF \E t \in fs : AbsPath(t, root) = file_path /\ t.readable
    THEN (CHOOSE t \in fs : AbsPath(t, root) = file_path).lines
    ELSE -1

\* count_lines: the lines of the file, 0 when open() or the read raises
count_lines(fs, root, file_path) ==
    IF \E t \in fs : AbsPath(t, root) = file_path /\ t.readable
    THEN (CHOOSE t \in fs : AbsPath(t, root) = file_path).lines
    ELSE 0

\* the walk without the pruning of line 66
PruneDirnamesKeepsAll(dirnames) == dirnames

\* line 66: dirnames[:] = [d for d in dirnames if d not in SKIP_DIRS]
PruneDirnames(dirnames) == SelectSeq(dirnames, LAMBDA d : d \notin SKIP_DIRS)

\* line 70 without .lower()
IsCodeFileCaseSensitive(filename) == PathSuffix(filename) \in CODE_EXTENSIONS

\* line 70: file_path.suffix.lower() in CODE_EXTENSIONS
IsCodeFile(filename) == StrLower(PathSuffix(filename)) \in CODE_EXTENSIONS

RECURSIVE ScanFilenames(_, _, _, _)
\* lines 68-72: the inner loop of find_code_files over one directory
ScanFilenames(fs, root, dirpath, filenames) ==
    IF filenames = <<>> THEN <<>>
    ELSE LET file_path == Append(dirpath, Head(filenames))
             rest == ScanFilenames(fs, root, dirpath, Tail(filenames))
         IN  IF IsCodeFile(Head(filenames))
             THEN << <<file_path, count_lines(fs, root, file_path)>> >> \o rest
             ELSE rest

\* ------------------------------------------------------------ main(): report

Min(a, b) == IF a <= b THEN a ELSE b
Max(a, b) == IF a >= b THEN a ELSE b

\* s[:n] of Python: the first n elements, all but the last -n when n < 0
PySlice(s, n) ==
    SubSeq(s, 1, IF n >= 0 THEN Min(n, Len(s)) ELSE Max(Len(s) + n, 0))

\* sorted() that ignores reverse=True
InsertSortedIgnoresReverse(s, x, reverse) ==
    LET k == Cardinality({i \in 1..Len(s) : \A j \in 1..i : s[j][2] <= x[2]})
    IN  SubSeq(s, 1, k) \o <<x>> \o SubSeq(s, k + 1, Len(s))

\* x put into the sorted sequence s behind every element that does not have
\* to follow it: sorted() is stable, with reverse=True as well
InsertSorted(s, x, reverse) ==
    LET before(y) == IF reverse THEN y[2] >= x[2] ELSE y[2] <= x[2]
        k == Cardinality({i \in 1..Len(s) : \A j \in 1..i : before(s[j])})
    IN  SubSeq(s, 1, k) \o <<x>> \o SubSeq(s, k + 1, Len(s))

RECURSIVE Sorted(_, _)
\* sorted(files, key=lambda x: x[1], reverse=reverse)
Sorted(s, reverse) ==
    IF s = <<>> THEN <<>>
    ELSE InsertSorted(Sorted(SubSeq(s, 1, Len(s) - 1), reverse), s[Len(s)], reverse)

RECURSIVE LongLoopStrict(_, _, _)
\* the loop with "line_count > args.threshold"
LongLoopStrict(top, root, threshold) ==
    IF top = <<>> THEN <<>>
    ELSE LET rest == LongLoopStrict(Tail(top), root, threshold)
         IN  IF Head(top)[2] > threshold
             THEN << <<RelativeTo(Head(top)[1], root).parts, Head(top)[2]>> >> \o rest
             ELSE rest

RECURSIVE LongLoop(_, _, _)
\* lines 129-141: the loop over top_files that collects long_warnings
LongLoop(top, root, threshold) ==
    IF top = <<>> THEN <<>>
    ELSE LET file_path == Head(top)[1]
             line_count == Head(top)[2]
             relative_path == RelativeTo(file_path, root).parts
             rest == LongLoop(Tail(top), root, threshold)
         IN  IF line_count >= threshold
             THEN << <<relative_path, line_count>> >> \o rest
             ELSE rest

\* is_expected_short without the suffix test
IsExpectedShortPatternsOnly(filename) == filename \in SKIP_SHORT_PATTERNS

\* lines 157-160: is_expected_short
IsExpectedShort(filename) ==
    \/ filename \in SKIP_SHORT_PATTERNS
    \/ \E i \in 1..Len(SKIP_SHORT_SUFFIXES) : EndsWith(filename, SKIP_SHORT_SUFFIXES[i])

RECURSIVE ShortLoop(_, _, _)
\* lines 150-169: the loop over bottom_files that collects short_warnings
ShortLoop(bottom, root, min_threshold) ==
    IF bottom = <<>> THEN <<>>
    ELSE LET file_path == Head(bottom)[1]
             line_count == Head(bottom)[2]
             relative_path == RelativeTo(file_path, root).parts
             filename == PathName(file_path)
             rest == ShortLoop(Tail(bottom), root, min_threshold)
         IN  IF line_count <= min_threshold /\ ~IsExpectedShort(filename)
             THEN << <<relative_path, line_count>> >> \o rest
             ELSE rest

RECURSIVE SumLines(_)
\* sum(count for _, count in files)
SumLines(s) == IF s = <<>> THEN 0 ELSE Head(s)[2] + SumLines(Tail(s))

\* the average rounded to the nearest integer instead of floored
AverageOfRounded(lines, count) ==
    IF count # 0 THEN (2 * lines + count) \div (2 * count) ELSE 0

\* "a // b if b else 0"
AverageOf(lines, count) == IF count # 0 THEN lines \div count ELSE 0

RECURSIVE PackageFoldOverwrites(_, _, _)
\* the fold with the entry of a package reset at each of its files
PackageFoldOverwrites(s, root, stats) ==
    IF s = <<>> THEN stats
    ELSE LET pkg == get_package(Head(s)[1], root)
             new == [files |-> 1, lines |-> Head(s)[2]]
         IN  PackageFoldOverwrites(Tail(s), root,
                 [p \in DOMAIN stats \cup {pkg} |-> IF p = pkg THEN new ELSE stats[p]])

RECURSIVE PackageFold(_, _, _)
\* lines 182-188: the fold of files into package_stats
PackageFold(s, root, stats) ==
    IF s = <<>> THEN stats
    ELSE LET pkg == get_package(Head(s)[1], root)
             old == IF pkg \in DOMAIN stats THEN stats[pkg] ELSE [files |-> 0, lines |-> 0]
             new == [files |-> old.files + 1, lines |-> old.lines + Head(s)[2]]
         IN  PackageFold(Tail(s), root,
                         [p \in DOMAIN stats \cup {pkg} |-> IF p = pkg THEN new ELSE stats[p]])

\* ------------------------------------------------------------------ inputs

\* the scan roots: a plain one, and one whose own name is a skipped name
RootDirs == { <<"repo">>, <<"opt", "build">> }

DefaultArgs ==
    [threshold |-> DefaultThreshold, min_threshold |-> DefaultMinThreshold,
     top |-> DefaultTop, bottom |-> DefaultBottom]

\* command lines that give -t and -n only
LongArgs ==
    {[DefaultArgs EXCEPT !.threshold = t, !.top = n] : t \in 1..(MaxLines + 1), n \in -1..MaxN}

\* command lines that give --min-threshold and -b only
ShortArgs ==
    {[DefaultArgs EXCEPT !.min_threshold = t, !.bottom = n] : t \in 0..MaxLines, n \in -1..MaxN}

\* the trees of at most MaxFiles files at the given paths, each file with a
\* line count of lineSet, at most maxBad of them unreadable
Trees(paths, lineSet, maxBad) ==
    UNION { UNION { { {[path |-> paths[i], lines |-> l[i], readable |-> i \notin bad] : i \in S}
                      : bad \in {b \in SUBSET S : Cardinality(b) <= maxBad} }
                    : l \in [S -> lineSet] }
            : S \in {T \in SUBSET (1..Len(paths)) : Cardinality(T) <= MaxFiles} }

\* a run of main() on a tree that exercises the scan, default arguments
ScanInputs ==
    /\ tree \in Trees(ScanPaths, 1..MaxLines, 1)
    /\ root_dir \in RootDirs
    /\ args = DefaultArgs

\* a run of main() on a tree that exercises the report, arguments given
ReportInputs ==
    /\ tree \in Trees(ReportPaths, 0..MaxLines, 0)
    /\ root_dir = <<"repo">>
    /\ args \in LongArgs \cup ShortArgs

\* ----------------------------------------------------------------- actions

Init ==
    /\ ScanInputs \/ ReportInputs
    /\ pc = "walk"
    /\ pending = <<root_dir>>
    /\ files = <<>>
    /\ top_files = <<>>
    /\ long_warnings = <<>>
    /\ bottom_files = <<>>
    /\ short_warnings = <<>>
    /\ total_files = 0
    /\ total_lines = 0
    /\ average = 0
    /\ package_stats = <<>>
    /\ package_avg = <<>>
    /\ long_msg = ""
    /\ short_msg = ""
    /\ call = <<>>
    /\ result = ""

\* lines 64-72: one iteration of "for dirpath, dirnames, filenames in os.walk"
WalkDir ==
    /\ pc = "walk"
    /\ pending # <<>>
    /\ LET dirpath == Head(pending)
           dirnames == PruneDirnames(Dirnames(tree, root_dir, dirpath))
           filenames == Filenames(tree, root_dir, dirpath)
       IN  /\ files' = files \o ScanFilenames(tree, root_dir, dirpath, filenames)
           /\ pending' = [i \in 1..Len(dirnames) |-> Append(dirpath, dirnames[i])]
                            \o Tail(pending)
    /\ UNCHANGED <<tree, root_dir, args, pc, top_files, long_warnings, bottom_files,
                   short_warnings, total_files, total_lines, average, package_stats,
                   package_avg, long_msg, short_msg, call, result>>

\* lines 118-141: find_code_files has returned; the table of the longest files
LongTable ==
    /\ pc = "walk"
    /\ pending = <<>>
    /\ LET files_desc == Sorted(files, TRUE)
       IN  /\ top_files' = PySlice(files_desc, args.top)
           /\ long_warnings' = LongLoop(top_files', root_dir, args.threshold)
    /\ pc' = "short"
    /\ UNCHANGED <<tree, root_dir, args, pending, files, bottom_files, short_warnings,
                   total_files, total_lines, average, package_stats, package_avg,
                   long_msg, short_msg, call, result>>

\* lines 120, 143-169: the table of the shortest files
ShortTable ==
    /\ pc = "short"
    /\ LET files_asc == Sorted(files, FALSE)
       IN  /\ bottom_files' = PySlice(files_asc, args.bottom)
           /\ short_warnings' = ShortLoop(bottom_files', root_dir, args.min_threshold)
    /\ pc' = "summary"
    /\ UNCHANGED <<tree, root_dir, args, pending, files, top_files, long_warnings,
                   total_files, total_lines, average, package_stats, package_avg,
                   long_msg, short_msg, call, result>>

\* lines 171-197: the totals and the per-package breakdown
Summary ==
    /\ pc = "summary"
    /\ total_files' = Len(files)
    /\ total_lines' = SumLines(files)
    /\ average' = AverageOf(total_lines', total_files')
    /\ package_stats' = PackageFold(files, root_dir, <<>>)
    /\ package_avg' = [p \in DOMAIN package_stats' |->
                          AverageOf(package_stats'[p].lines, package_stats'[p].files)]
    /\ pc' = "warn"
    /\ UNCHANGED <<tree, root_dir, args, pending, files, top_files, long_warnings,
                   bottom_files, short_warnings, long_msg, short_msg, call, result>>

\* lines 199-213: the two warning blocks
Warnings ==
    /\ pc = "warn"
    /\ long_msg' = IF long_warnings # <<>> THEN "warn" ELSE "none"
    /\ short_msg' = IF short_warnings # <<>> THEN "warn" ELSE "none"
    /\ pc' = "done"
    /\ UNCHANGED <<tree, root_dir, args, pending, files, top_files, long_warnings,
                   bottom_files, short_warnings, total_files, total_lines, average,
                   package_stats, package_avg, call, result>>

Next == WalkDir \/ LongTable \/ ShortTable \/ Summary \/ Warnings

Spec == Init /\ [][Next]_vars

\* ------------------------------------------------- get_package on its own

PkgSegments == {"src", "lib", "repo"}

\* the paths of at most n segments
PathsUpTo(n) == UNION {[1..k -> PkgSegments] : k \in 0..n}

InitPkg ==
    /\ call \in [file_path : PathsUpTo(MaxSegs + 1), root_dir : PathsUpTo(MaxSegs)]
    /\ result = ""
    /\ pc = "pkg"
    /\ tree = {}
    /\ root_dir = <<>>
    /\ args = DefaultArgs
    /\ pending = <<>>
    /\ files = <<>>
    /\ top_files = <<>>
    /\ long_warnings = <<>>
    /\ bottom_files = <<>>
    /\ short_warnings = <<>>
    /\ total_files = 0
    /\ total_lines = 0
    /\ average = 0
    /\ package_stats = <<>>
    /\ package_avg = <<>>
    /\ long_msg = ""
    /\ short_msg = ""

\* lines 39-48: one call of get_package
GetPackageCall ==
    /\ pc = "pkg"
    /\ result' = get_package(call.file_path, call.root_dir)
    /\ pc' = "pkg_done"
    /\ UNCHANGED <<tree, root_dir, args, pending, files, top_files, long_warnings,
                   bottom_files, short_warnings, total_files, total_lines, average,
                   package_stats, package_avg, long_msg, short_msg, call>>

NextPkg == GetPackageCall

SpecPkg == InitPkg /\ [][NextPkg]_vars

\* ------------------------------------------------------------- properties

\* os.walk is exhausted: find_code_files has returned its result
Returned == pc \in {"walk", "short", "summary", "warn", "done"} /\ pending = <<>>

\* the segments of a record's path below the scan root
RelOf(rec) == SubSeq(rec[1], Len(root_dir) + 1, Len(rec[1]))

\* a path below the root that passes through a directory of SKIP_DIRS
ThroughSkipped(rel) == \E k \in 1..(Len(rel) - 1) : rel[k] \in SKIP_DIRS

\* a name that ends, whatever the case of its letters, with an extension of
\* CODE_EXTENSIONS behind a stem that is not empty
ExtAllowed(name) ==
    LET lowered == StrLower(name)
    IN  \E e \in CODE_EXTENSIONS : Len(name) > Len(e) /\ EndsWith(lowered, e)

RecordsOf(t) == {i \in 1..Len(files) : RelOf(files[i]) = t.path}

RECURSIVE SumOver(_, _)
SumOver(S, f) ==
    IF S = {} THEN 0
    ELSE LET x == CHOOSE y \in S : TRUE IN f[x] + SumOver(S \ {x}, f)

\* s holds the elements of t that satisfy keep, in the order of t
IsFilterOf(s, t, keep(_)) ==
    \E pos \in [1..Len(s) -> 1..Len(t)] :
        /\ \A i \in 1..Len(s) : s[i] = <<RelOf(t[pos[i]]), t[pos[i]][2]>>
        /\ \A i, j \in 1..Len(s) : i < j => pos[i] < pos[j]
        /\ \A k \in 1..Len(t) : keep(t[k]) <=> \E i \in 1..Len(s) : pos[i] = k

\* C1: no record of the scan has a path that passes, below the root, through
\* a directory named in SKIP_DIRS, and no such directory is ever queued for
\* descent.
C1_SkippedDirsPruned ==
    /\ \A i \in 1..Len(files) : ~ThroughSkipped(RelOf(files[i]))
    /\ \A i \in 1..Len(pending) :
          \A k \in (Len(root_dir) + 1)..Len(pending[i]) : pending[i][k] \notin SKIP_DIRS

C1_Witness ==
    /\ pc = "done"
    /\ Len(root_dir) = 2
    /\ files # <<>>
    /\ \E t \in tree : t.path = <<"vendor", "lib", "e.ts">>
    /\ \E t \in tree : t.path = <<"src", "out.kt">>

C4_PackageSums ==
    pc \in {"warn", "done"} =>
        LET pkgOf(i) == IF RelOf(files[i])[1] \in PACKAGES THEN RelOf(files[i])[1] ELSE "root"
            members(p) == {i \in 1..Len(files) : pkgOf(i) = p}
            counts == [i \in 1..Len(files) |-> files[i][2]]
        IN  /\ DOMAIN package_stats \subseteq PACKAGES \cup {"root"}
            /\ DOMAIN package_stats = {pkgOf(i) : i \in 1..Len(files)}
            /\ \A p \in DOMAIN package_stats :
                  /\ package_stats[p].files > 0
                  /\ package_stats[p].files = Cardinality(members(p))
                  /\ package_stats[p].lines = SumOver(members(p), counts)
            /\ SumOver(DOMAIN package_stats, [p \in DOMAIN package_stats |-> package_stats[p].files])
                  = Len(files)
            /\ SumOver(DOMAIN package_stats, [p \in DOMAIN package_stats |-> package_stats[p].lines])
                  = SumOver(1..Len(files), counts)
            /\ total_files = Len(files)
            /\ total_lines = SumOver(1..Len(files), counts)

C4_Witness ==
    /\ pc = "done"
    /\ Len(files) = 2
    /\ Len(top_files) = 1
    /\ DOMAIN package_stats = {"root"}
    /\ package_stats["root"].files = 2
    /\ package_stats["root"].lines = 3

\* C5: an unreadable file does not stop the scan: in the result of
\* find_code_files every file of the tree that is not below a skipped
\* directory and has an allowed extension has exactly one record, with
\* line_count 0 if it is unreadable and its own line count otherwise, and
\* there is no other record.
C5_ReadFailureIsZero ==
    Returned =>
        LET eligible == {t \in tree : ~ThroughSkipped(t.path) /\ ExtAllowed(PathName(t.path))}
        IN  /\ \A t \in eligible :
                  \E i \in 1..Len(files) :
                      files[i] = <<root_dir \o t.path, IF t.readable THEN t.lines ELSE 0>>
            /\ Len(files) = Cardinality(eligible)

C5_Witness ==
    /\ pc = "done"
    /\ \E t \in tree : ~t.readable /\ t.lines > 0 /\ RecordsOf(t) # {}
    /\ \E i \in 1..Len(files) : files[i][2] > 0

\* C6: with no scanned file the report completes with total_files = 0,
\* total_lines = 0, average 0 and both warning lists empty; otherwise the
\* average is the floor of total_lines / total_files, and each package
\* average is the floor of its lines / its files.
C6_AveragesNeverFault ==
    pc \in {"warn", "done"} =>
        /\ total_files = Len(files)
        /\ total_files = 0 =>
              /\ total_lines = 0
              /\ average = 0
              /\ long_warnings = <<>>
              /\ short_warnings = <<>>
              /\ DOMAIN package_avg = {}
        /\ total_files > 0 =>
              /\ average * total_files <= total_lines
              /\ total_lines < (average + 1) * total_files
        /\ DOMAIN package_avg = DOMAIN package_stats
        /\ \A p \in DOMAIN package_avg :
              /\ package_avg[p] * package_stats[p].files <= package_stats[p].lines
              /\ package_stats[p].lines < (package_avg[p] + 1) * package_stats[p].files

C6_Witness ==
    /\ pc = "done"
    /\ tree = {}
    /\ total_files = 0
    /\ average = 0
    /\ long_msg = "none"
    /\ short_msg = "none"

\* C7: get_package returns the first segment of file_path below root_dir
\* when that segment is in PACKAGES, and "root" in every other case (the
\* segment is not a package, the path is the root, the path is not under the
\* root); the result is always a package name or "root".
C7_GetPackage ==
    pc = "pkg_done" =>
        LET fp == call.file_path
            rd == call.root_dir
            under == Len(rd) <= Len(fp) /\ \A i \in 1..Len(rd) : fp[i] = rd[i]
            named == under /\ Len(fp) > Len(rd) /\ fp[Len(rd) + 1] \in PACKAGES
        IN  /\ named => result = fp[Len(rd) + 1]
            /\ ~named => result = "root"
            /\ result \in PACKAGES \cup {"root"}

C7_Witness ==
    /\ pc = "pkg_done"
    /\ call.root_dir = <<"repo">>
    /\ call.file_path = <<"src", "lib">>
    /\ result = "root"

\* C8: in the result of find_code_files every record's name ends,
\* case-insensitively, with an extension of CODE_EXTENSIONS, and a file of
\* the tree outside the skipped directories has a record exactly when its
\* name does.
C8_OnlyCodeExtensions ==
    Returned =>
        /\ \A i \in 1..Len(files) : ExtAllowed(PathName(files[i][1]))
        /\ \A t \in tree : ~ThroughSkipped(t.path) =>
              (RecordsOf(t) # {} <=> ExtAllowed(PathName(t.path)))

C8_Witness ==
    /\ pc = "done"
    /\ {t.path : t \in tree} = {<<"B.PY">>, <<".py">>}
    /\ Len(files) = 1
    /\ PathName(files[1][1]) = "B.PY"

\* C9: the top slice is non-increasing and the bottom slice non-decreasing
\* in line_count; each holds distinct records of the scan, and no record
\* outside the top slice has more lines than one inside it, none outside the
\* bottom slice fewer than one inside it.
C9_SlicesSorted ==
    LET sliceOf(s) ==
            \E pos \in [1..Len(s) -> 1..Len(files)] :
                /\ \A i \in 1..Len(s) : s[i] = files[pos[i]]
                /\ \A i, j \in 1..Len(s) : i # j => pos[i] # pos[j]
        outside(s) == {i \in 1..Len(files) : \A j \in 1..Len(s) : s[j] # files[i]}
    IN  /\ pc \in {"short", "summary", "warn", "done"} =>
              /\ \A i \in 1..(Len(top_files) - 1) : top_files[i][2] >= top_files[i + 1][2]
              /\ sliceOf(top_files)
              /\ \A i \in outside(top_files) : \A j \in 1..Len(top_files) :
                    files[i][2] <= top_files[j][2]
        /\ pc \in {"summary", "warn", "done"} =>
              /\ \A i \in 1..(Len(bottom_files) - 1) :
                    bottom_files[i][2] <= bottom_files[i + 1][2]
              /\ sliceOf(bottom_files)
              /\ \A i \in outside(bottom_files) : \A j \in 1..Len(bottom_files) :
                    files[i][2] >= bottom_files[j][2]

C9_Witness ==
    /\ pc = "done"
    /\ Len(files) = 2
    /\ files[1][2] < files[2][2]
    /\ top_files = <<files[2]>>

====
